---- MODULE Spec2Model ----
(***************************************************************************)
(* Model of scalable-syslog.                                               *)
(*                                                                         *)
(* Spec: the drain writer (adapter/internal/egress/tcp.go).  One TCPWriter *)
(* is driven by a single caller that issues Write and Close calls one      *)
(* after another; the owning context may be cancelled at any moment by     *)
(* its owner.  Dials and writes succeed or fail arbitrarily.               *)
(*                                                                         *)
(* SubSpec: one subscription worker (Subscriber.Start and its goroutine),  *)
(* with the stop function called at any moment and Connect, Receiver,      *)
(* Recv and Write succeeding or failing arbitrarily.                       *)
(*                                                                         *)
(* LoopSpec: the same worker, begun inside the read/write loop of its      *)
(* first session with up to 999 Log envelopes counted.                     *)
(*                                                                         *)
(* FormatSpec: the MSG formatting of Write (removeNulls, appendNewline).   *)
(*                                                                         *)
(* FilterSpec: the version filter of the scheduler.                        *)
(*                                                                         *)
(* CounterSpec: one CounterMetric (internal/metricemitter) with several    *)
(* goroutines calling Increment and SendWith.                              *)
(*                                                                         *)
(* SchedulerSpec: Scheduler.Start, its health server and the reconcile     *)
(* passes of the orchestrator it spawns, over adapters that host any       *)
(* bindings at the start.                                                  *)
(***************************************************************************)
EXTENDS Integers, Sequences, FiniteSets

\* ---------------------------------------------------------------- bounds
MaxDials == 3       \* dialFunc invocations explored
MaxEnvs  == 3       \* Write calls explored
MaxCloses == 3      \* Close calls explored
MaxSessions == 3    \* connector.Connect calls explored
MaxRecv  == 3       \* envelopes returned by Recv explored
MaxStops == 2       \* calls of the stop function explored
MaxLen   == 4       \* longest payload explored
MaxDrains == 2      \* most drains per app explored
MaxCallers == 2     \* goroutines calling one CounterMetric
MaxIncs  == 2       \* Increment calls explored
MaxSends == 2       \* SendWith calls explored
MaxAdapters == 2    \* most adapter addresses given to the scheduler
MaxPasses == 1      \* reconcile passes explored

\* ------------------------------------------------------------- constants
Log_OUT == 0
Log_ERR == 1
Backoff == 60       \* seconds, time.Minute

NoConn == 0         \* a nil net.Conn
NIL    == "nil"     \* a nil error
NilLog == <<>>      \* a nil *Log

ConnIds  == 1..MaxDials
LogTypes == {Log_OUT, Log_ERR, 2}
Kinds    == {"Log", "Counter", "Gauge", "Timer", "None"}
NoEnv    == [id |-> 0, kind |-> "None", type |-> Log_OUT]

VARIABLES
    wstate,        \* "none" before NewTCPWriter, "live" after it, "invalid" when it returned an error
    conn,          \* TCPWriter.conn: NoConn or the id of the held connection
    closed,        \* TCPWriter.closed
    ctxDone,       \* whether TCPWriter.ctx has been cancelled
    egressMetric,  \* delta accumulated in TCPWriter.egressMetric
    pc,            \* position of the caller inside Write: "idle", "connect", "sleep", "write"
    env,           \* argument of the current / last Write call
    op,            \* current / last operation: "none", "Write", "Close"
    result,        \* value returned by the last completed operation
    dials,         \* number of dialFunc invocations so far
    opened,        \* ids of the connections dialFunc returned
    closes,        \* closes[c]: number of Close() calls made on connection c
    frames,        \* frames the drain received, in order
    slept,         \* seconds slept by the current / last Write call
    dialsInCall,   \* dialFunc invocations of the current / last Write call
    wrote,         \* outcome of msg.WriteTo in the current / last call: "none", "ok", "fail"
    failedLast,    \* the last completed Log Write failed in msg.WriteTo and nothing was called since
    prevFailed,    \* failedLast as it stood when the current / last Write call began
    nextEnv,       \* id of the next envelope handed to Write
    logWrites,     \* number of Write calls made with a Log envelope
    closeCalls     \* number of Close calls made

vars == <<wstate, conn, closed, ctxDone, egressMetric, pc, env, op, result,
          dials, opened, closes, frames, slept, dialsInCall, wrote, failedLast,
          prevFailed, nextEnv, logWrites, closeCalls>>

\* The subscription worker (Subscriber.Start and the goroutine it spawns).
VARIABLES
    startResult,   \* what Start handed back to its caller: "none", "stopFunc"
    unsubscribe,   \* the int32 the returned stop function increments
    spc,           \* position of the worker goroutine
    swriter,       \* writer of the current session, 0 when there is none
    wclosed,       \* wclosed[w]: number of Close() calls made on writer w
    connects,      \* connector.Connect calls made
    nexts,         \* pool.Next calls made
    receivers,     \* client.Receiver calls made
    sctx,          \* context of the current session: "none", "live", "cancelled"
    leakedCtx,     \* contexts dropped without having been cancelled
    cur,           \* envelope the last Recv returned
    recvd,         \* envelopes returned by Recv, in order
    written,       \* envelopes passed to writer.Write, in order
    count,         \* count of readWriteLoop
    ingress,       \* increments handed to emitter.IncCounter("ingress"), in order
    ev,            \* last thing that happened to the worker
    writesAfterStop, \* writer.Write calls made after the first stop()
    sinceEmit      \* Log envelopes received in this session since its last emission

svars == <<startResult, unsubscribe, spc, swriter, wclosed, connects, nexts,
           receivers, sctx, leakedCtx, cur, recvd, written, count, ingress,
           ev, writesAfterStop, sinceEmit>>

\* The MSG formatting of Write (removeNulls, appendNewline).
VARIABLES
    payload,       \* Log.Payload handed to the formatting
    msg,           \* rfc5424.Message.Message computed from it
    msg2,          \* the same formatting applied to msg
    fpc            \* "in", "once", "twice"

fvars == <<payload, msg, msg2, fpc>>

\* The version filter of the scheduler (VersionFilter.FetchBindings).
VARIABLES
    vfInput,       \* AppBindings the wrapped binding reader returns
    vfReaderErr,   \* whether the wrapped binding reader returns an error
    vfOutput,      \* AppBindings returned by the filter
    vfErr,         \* error returned by the filter
    vfpc           \* "in", "done"

vfvars == <<vfInput, vfReaderErr, vfOutput, vfErr, vfpc>>

\* One CounterMetric used by several goroutines.
VARIABLES
    delta,         \* CounterMetric.delta
    cpc,           \* cpc[g]: position of goroutine g: "idle", "fn", "addback"
    cd,            \* cd[g]: d of the SendWith call of g, the delta it swapped out
    cret,          \* cret[g]: what the last SendWith of g returned: "none", "nil", "err"
    sentSum,       \* sum of the deltas of the envelopes fn accepted
    incSum,        \* sum of the arguments of the Increment calls
    incCalls,      \* Increment calls made
    sendCalls,     \* SendWith calls made
    incDuring,     \* incDuring[g]: sum of the Increments made during the SendWith of g
    overlap        \* overlap[g]: another SendWith ran during the SendWith of g

cvars == <<delta, cpc, cd, cret, sentSum, incSum, incCalls, sendCalls,
           incDuring, overlap>>

\* The scheduler process: Scheduler.Start, the health server and the
\* orchestrator it spawns, and the bindings its adapters host.
VARIABLES
    schpc,         \* "new", "egress" (startEgress done), "serving" (Start returned), "fatal" (log.Fatalf)
    exitCause,     \* what ended the process: "none", "bind", "serve"
    numAdapters,   \* len(s.adapterAddrs)
    hosted,        \* hosted[a]: bindings adapter a runs
    opc,           \* the orchestrator: "off", "wait", "fetched", "listed"
    desired,       \* bindings the fetcher returned to the pass
    actual,        \* actual[a]: what ListBindings(a) gave the pass
    listFailed,    \* adapters whose ListBindings failed in the pass
    affected,      \* bindings a failing adapter RPC of the last pass concerned
    lastPass,      \* "none", "aborted" (fetch failed), "completed"
    passes,        \* passes begun
    serveReturned  \* server.Serve has returned

schvars == <<schpc, exitCause, numAdapters, hosted, opc, desired, actual,
             listFailed, affected, lastPass, passes, serveReturned>>

allvars == <<vars, svars, fvars, vfvars, cvars, schvars>>

\* what the drain writer leaves alone
notWriter == <<svars, fvars, vfvars, cvars, schvars>>

\* what the subscription worker, the formatting and the filter leave alone
notSubscriber == <<vars, fvars, vfvars, cvars, schvars>>
notFormat     == <<vars, svars, vfvars, cvars, schvars>>
notFilter     == <<vars, svars, fvars, cvars, schvars>>

\* what the counter metric leaves alone
notCounter    == <<vars, svars, fvars, vfvars, schvars>>

\* what the scheduler leaves alone
notScheduler  == <<vars, svars, fvars, vfvars, cvars>>

\* --------------------------------------------------------- pure functions
\* GetLog that answers for every envelope carrying a message
GetLog_AnyMessage(e) == IF e.kind # "None" THEN <<e.type>> ELSE NilLog

\* *Log as a sequence: empty for nil, else <<Type>>
GetLog(e) == IF e.kind = "Log" THEN <<e.type>> ELSE NilLog

generatePriority(logType) ==
    IF logType = Log_OUT THEN 6 + 8
    ELSE IF logType = Log_ERR THEN 3 + 8
    ELSE -1

\* connections dialled successfully and not yet closed
OpenConns == {c \in opened : closes[c] = 0}

\* ------------------------------------------------------------------ Init
\* The worker before Subscriber.Start.
SubscriberIdle ==
    /\ startResult = "none"
    /\ unsubscribe = 0
    /\ spc = "unstarted"
    /\ swriter = 0
    /\ wclosed = [w \in 1..MaxSessions |-> 0]
    /\ connects = 0
    /\ nexts = 0
    /\ receivers = 0
    /\ sctx = "none"
    /\ leakedCtx = 0
    /\ cur = NoEnv
    /\ recvd = <<>>
    /\ written = <<>>
    /\ count = 0
    /\ ingress = <<>>
    /\ ev = "none"
    /\ writesAfterStop = 0
    /\ sinceEmit = 0

\* No payload being formatted.
FormatIdle ==
    /\ payload = <<>>
    /\ msg = <<>>
    /\ msg2 = <<>>
    /\ fpc = "in"

\* No bindings being filtered.
FilterIdle ==
    /\ vfInput = <<>>
    /\ vfReaderErr = FALSE
    /\ vfOutput = [nil |-> TRUE, apps |-> <<>>]
    /\ vfErr = FALSE
    /\ vfpc = "in"

AdapterIds == 1..MaxAdapters
BindingIds == {"b1", "b2", "b3"}

\* A scheduler NewScheduler returned, with one adapter that hosts nothing.
SchedulerIdle ==
    /\ schpc = "new"
    /\ exitCause = "none"
    /\ numAdapters = 1
    /\ hosted = [a \in AdapterIds |-> {}]
    /\ opc = "off"
    /\ desired = {}
    /\ actual = [a \in AdapterIds |-> {}]
    /\ listFailed = {}
    /\ affected = {}
    /\ lastPass = "none"
    /\ passes = 0
    /\ serveReturned = FALSE

Callers == 1..MaxCallers

\* The metric as NewCounterMetric returns it, no call made yet.
CounterIdle ==
    /\ delta = 0
    /\ cpc = [g \in Callers |-> "idle"]
    /\ cd = [g \in Callers |-> 0]
    /\ cret = [g \in Callers |-> "none"]
    /\ sentSum = 0
    /\ incSum = 0
    /\ incCalls = 0
    /\ sendCalls = 0
    /\ incDuring = [g \in Callers |-> 0]
    /\ overlap = [g \in Callers |-> FALSE]

\* The writer before NewTCPWriter.
WriterIdle ==
    /\ wstate = "none"
    /\ conn = NoConn
    /\ closed = FALSE
    /\ ctxDone = FALSE
    /\ egressMetric = 0
    /\ pc = "idle"
    /\ env = NoEnv
    /\ op = "none"
    /\ result = "none"
    /\ dials = 0
    /\ opened = {}
    /\ closes = [c \in ConnIds |-> 0]
    /\ frames = <<>>
    /\ slept = 0
    /\ dialsInCall = 0
    /\ wrote = "none"
    /\ failedLast = FALSE
    /\ prevFailed = FALSE
    /\ nextEnv = 1
    /\ logWrites = 0
    /\ closeCalls = 0

Init ==
    /\ WriterIdle
    /\ SubscriberIdle
    /\ FormatIdle
    /\ FilterIdle
    /\ CounterIdle
    /\ SchedulerIdle

\* ------------------------------------------------------------ operations

\* NewTCPWriter that dials the drain while constructing the writer
NewTCPWriter_Eager(parses) ==
    /\ wstate = "none"
    /\ wstate' = IF parses THEN "live" ELSE "invalid"
    /\ IF parses
       THEN /\ dials' = dials + 1
            /\ conn' = dials + 1
            /\ opened' = opened \cup {dials + 1}
       ELSE UNCHANGED <<dials, conn, opened>>
    /\ UNCHANGED <<closed, ctxDone, egressMetric, pc, env, op, result,
                   closes, frames, slept, dialsInCall, wrote,
                   failedLast, prevFailed, nextEnv, logWrites, closeCalls>>
    /\ UNCHANGED notWriter

\* NewTCPWriter: parses the drain URL and builds the writer; nothing is dialled.
NewTCPWriter(parses) ==
    /\ wstate = "none"
    /\ wstate' = IF parses THEN "live" ELSE "invalid"
    /\ UNCHANGED <<conn, closed, ctxDone, egressMetric, pc, env, op, result,
                   dials, opened, closes, frames, slept, dialsInCall, wrote,
                   failedLast, prevFailed, nextEnv, logWrites, closeCalls>>
    /\ UNCHANGED notWriter

\* connection() that dials without looking at the held connection
connection_AlwaysDial == FALSE

\* connection(): TRUE when the held connection is returned, FALSE when
\* connect() is entered.
connection == conn # NoConn

\* connClose() that closes the held connection without clearing it
connClose_KeepsConn ==
    IF conn # NoConn
    THEN /\ closes' = [closes EXCEPT ![conn] = @ + 1]
         /\ UNCHANGED conn
    ELSE UNCHANGED <<closes, conn>>

\* connClose(): closes and clears the held connection, if any.
connClose ==
    IF conn # NoConn
    THEN /\ closes' = [closes EXCEPT ![conn] = @ + 1]
         /\ conn' = NoConn
    ELSE UNCHANGED <<closes, conn>>

\* Write, from the call to the point where a connection is needed.
WriteCall(e) ==
    /\ wstate = "live"
    /\ pc = "idle"
    /\ nextEnv <= MaxEnvs
    /\ e.id = nextEnv
    /\ nextEnv' = nextEnv + 1
    /\ env' = e
    /\ op' = "Write"
    /\ IF GetLog(e) = NilLog
       THEN /\ result' = NIL
            /\ pc' = "idle"
            /\ UNCHANGED <<slept, dialsInCall, wrote, failedLast, prevFailed,
                           logWrites>>
       ELSE /\ result' = "pending"
            /\ pc' = IF connection THEN "write" ELSE "connect"
            /\ slept' = 0
            /\ dialsInCall' = 0
            /\ wrote' = "none"
            /\ prevFailed' = failedLast
            /\ failedLast' = FALSE
            /\ logWrites' = logWrites + 1
    /\ UNCHANGED <<wstate, conn, closed, ctxDone, egressMetric, dials, opened,
                   closes, frames, closeCalls>>
    /\ UNCHANGED notWriter

\* connect() that sleeps and retries whatever the state of the context
connect_NoCtxCheck(dialOk) ==
    /\ pc = "connect"
    /\ IF closed
       THEN /\ result' = "closedErr"
            /\ pc' = "idle"
            /\ UNCHANGED <<conn, dials, opened, dialsInCall>>
       ELSE /\ dials < MaxDials
            /\ dials' = dials + 1
            /\ dialsInCall' = dialsInCall + 1
            /\ UNCHANGED result
            /\ IF dialOk
               THEN /\ conn' = dials + 1
                    /\ opened' = opened \cup {dials + 1}
                    /\ pc' = "write"
               ELSE /\ UNCHANGED <<conn, opened>>
                    /\ pc' = "sleep"
    /\ UNCHANGED <<wstate, closed, ctxDone, egressMetric, env, op, closes,
                   frames, slept, wrote, failedLast, prevFailed, nextEnv,
                   logWrites, closeCalls>>
    /\ UNCHANGED notWriter

\* connect() without the check of the closed flag
connect_NoClosedCheck(dialOk) ==
    /\ pc = "connect"
    /\ dials < MaxDials
    /\ dials' = dials + 1
    /\ dialsInCall' = dialsInCall + 1
    /\ IF dialOk
       THEN /\ conn' = dials + 1
            /\ opened' = opened \cup {dials + 1}
            /\ pc' = "write"
            /\ UNCHANGED result
       ELSE /\ UNCHANGED <<conn, opened>>
            /\ IF ctxDone
               THEN /\ result' = "dialErr"
                    /\ pc' = "idle"
               ELSE /\ pc' = "sleep"
                    /\ UNCHANGED result
    /\ UNCHANGED <<wstate, closed, ctxDone, egressMetric, env, op, closes,
                   frames, slept, wrote, failedLast, prevFailed, nextEnv,
                   logWrites, closeCalls>>
    /\ UNCHANGED notWriter

\* One iteration of the loop of connect(), up to its sleep or its return.
connect(dialOk) ==
    /\ pc = "connect"
    /\ IF closed
       THEN /\ result' = "closedErr"
            /\ pc' = "idle"
            /\ UNCHANGED <<conn, dials, opened, dialsInCall>>
       ELSE /\ dials < MaxDials
            /\ dials' = dials + 1
            /\ dialsInCall' = dialsInCall + 1
            /\ IF dialOk
               THEN /\ conn' = dials + 1
                    /\ opened' = opened \cup {dials + 1}
                    /\ pc' = "write"
                    /\ UNCHANGED result
               ELSE /\ UNCHANGED <<conn, opened>>
                    /\ IF ctxDone
                       THEN /\ result' = "dialErr"
                            /\ pc' = "idle"
                       ELSE /\ pc' = "sleep"
                            /\ UNCHANGED result
    /\ UNCHANGED <<wstate, closed, ctxDone, egressMetric, env, op, closes,
                   frames, slept, wrote, failedLast, prevFailed, nextEnv,
                   logWrites, closeCalls>>
    /\ UNCHANGED notWriter

\* time.Sleep(duration) returns and the loop of connect() continues.
Sleep ==
    /\ pc = "sleep"
    /\ slept' = slept + Backoff
    /\ pc' = "connect"
    /\ UNCHANGED <<wstate, conn, closed, ctxDone, egressMetric, env, op,
                   result, dials, opened, closes, frames, dialsInCall, wrote,
                   failedLast, prevFailed, nextEnv, logWrites, closeCalls>>
    /\ UNCHANGED notWriter

\* Write that takes a failed msg.WriteTo for a delivered frame
WriteTo_CountsFailed(ioOk) ==
    /\ pc = "write"
    /\ pc' = "idle"
    /\ frames' = Append(frames, [id |-> env.id, conn |-> conn,
                                 pri |-> generatePriority(GetLog(env)[1])])
    /\ egressMetric' = egressMetric + 1
    /\ IF ioOk
       THEN /\ wrote' = "ok"
            /\ result' = NIL
            /\ UNCHANGED <<conn, closes, failedLast>>
       ELSE /\ connClose
            /\ wrote' = "fail"
            /\ failedLast' = TRUE
            /\ result' = "writeErr"
    /\ UNCHANGED <<wstate, closed, ctxDone, env, op, dials, opened, slept,
                   dialsInCall, prevFailed, nextEnv, logWrites, closeCalls>>
    /\ UNCHANGED notWriter

\* Write that keeps the connection after a failed msg.WriteTo
WriteTo_KeepsConn(ioOk) ==
    /\ pc = "write"
    /\ pc' = "idle"
    /\ IF ioOk
       THEN /\ frames' = Append(frames, [id |-> env.id, conn |-> conn,
                                         pri |-> generatePriority(GetLog(env)[1])])
            /\ egressMetric' = egressMetric + 1
            /\ wrote' = "ok"
            /\ result' = NIL
            /\ UNCHANGED <<conn, closes, failedLast>>
       ELSE /\ wrote' = "fail"
            /\ failedLast' = TRUE
            /\ result' = "writeErr"
            /\ UNCHANGED <<conn, closes, frames, egressMetric>>
    /\ UNCHANGED <<wstate, closed, ctxDone, env, op, dials, opened, slept,
                   dialsInCall, prevFailed, nextEnv, logWrites, closeCalls>>
    /\ UNCHANGED notWriter

\* Write, from msg.WriteTo(conn) to its return.
WriteTo(ioOk) ==
    /\ pc = "write"
    /\ pc' = "idle"
    /\ IF ioOk
       THEN /\ frames' = Append(frames, [id |-> env.id, conn |-> conn,
                                         pri |-> generatePriority(GetLog(env)[1])])
            /\ egressMetric' = egressMetric + 1
            /\ wrote' = "ok"
            /\ result' = NIL
            /\ UNCHANGED <<conn, closes, failedLast>>
       ELSE /\ connClose
            /\ wrote' = "fail"
            /\ failedLast' = TRUE
            /\ result' = "writeErr"
            /\ UNCHANGED <<frames, egressMetric>>
    /\ UNCHANGED <<wstate, closed, ctxDone, env, op, dials, opened, slept,
                   dialsInCall, prevFailed, nextEnv, logWrites, closeCalls>>
    /\ UNCHANGED notWriter

\* Close that closes the connection without marking the writer closed
Close_NoFlag(closeOk) ==
    /\ wstate = "live"
    /\ pc = "idle"
    /\ closeCalls < MaxCloses
    /\ closeCalls' = closeCalls + 1
    /\ op' = "Close"
    /\ connClose
    /\ result' = IF conn # NoConn /\ ~closeOk THEN "closeErr" ELSE NIL
    /\ failedLast' = FALSE
    /\ UNCHANGED <<wstate, closed, ctxDone, egressMetric, pc, env, dials,
                   opened, frames, slept, dialsInCall, wrote, prevFailed,
                   nextEnv, logWrites>>
    /\ UNCHANGED notWriter

\* Close: marks the writer closed and closes the held connection.
Close(closeOk) ==
    /\ wstate = "live"
    /\ pc = "idle"
    /\ op' = "Close"
    /\ closed' = TRUE
    /\ connClose
    /\ result' = IF conn # NoConn /\ ~closeOk THEN "closeErr" ELSE NIL
    /\ failedLast' = FALSE
    /\ closeCalls < MaxCloses
    /\ closeCalls' = closeCalls + 1
    /\ UNCHANGED <<wstate, ctxDone, egressMetric, pc, env, dials, opened,
                   frames, slept, dialsInCall, wrote, prevFailed, nextEnv,
                   logWrites>>
    /\ UNCHANGED notWriter

\* The owner of the context handed to NewTCPWriter cancels it.
CancelCtx ==
    /\ ~ctxDone
    /\ ctxDone' = TRUE
    /\ UNCHANGED <<wstate, conn, closed, egressMetric, pc, env, op, result,
                   dials, opened, closes, frames, slept, dialsInCall, wrote,
                   failedLast, prevFailed, nextEnv, logWrites, closeCalls>>
    /\ UNCHANGED notWriter

Envelopes == [id : 1..MaxEnvs, kind : Kinds, type : LogTypes]

Next ==
    \/ \E parses \in BOOLEAN : NewTCPWriter(parses)
    \/ \E e \in Envelopes : WriteCall(e)
    \/ \E dialOk \in BOOLEAN : connect(dialOk)
    \/ Sleep
    \/ \E ioOk \in BOOLEAN : WriteTo(ioOk)
    \/ \E closeOk \in BOOLEAN : Close(closeOk)
    \/ CancelCtx

Spec == Init /\ [][Next]_vars

\* ------------------------------------------------- the subscription worker

EmitEvery == 1000   \* envelopes after which the ingress counter is emitted

\* envelopes Recv may return; the worker looks at the kind only
RecvEnvelopes == [id : 1..MaxRecv, kind : Kinds, type : {Log_OUT}]

\* Start: spawns connectAndRead and returns the stop function; it has no
\* other result.
Start ==
    /\ spc = "unstarted"
    /\ spc' = "connect"
    /\ startResult' = "stopFunc"
    /\ ev' = "Start"
    /\ UNCHANGED <<unsubscribe, swriter, wclosed, connects, nexts, receivers,
                   sctx, leakedCtx, cur, recvd, written, count, ingress,
                   writesAfterStop, sinceEmit>>
    /\ UNCHANGED notSubscriber

\* The function Start returned: atomic.AddInt32(&unsubscribe, 1).
Stop ==
    /\ startResult = "stopFunc"
    /\ unsubscribe < MaxStops
    /\ unsubscribe' = unsubscribe + 1
    /\ UNCHANGED <<startResult, spc, swriter, wclosed, connects, nexts,
                   receivers, sctx, leakedCtx, cur, recvd, written, count,
                   ingress, ev, writesAfterStop, sinceEmit>>
    /\ UNCHANGED notSubscriber

\* attemptConnectAndRead that asks for another attempt when Connect fails
Connect_Retries(ok) ==
    /\ spc = "connect"
    /\ connects < MaxSessions
    /\ connects' = connects + 1
    /\ IF ok
       THEN /\ swriter' = connects + 1
            /\ spc' = "next"
            /\ ev' = "Connect"
       ELSE /\ spc' = "connect"
            /\ ev' = "ConnectErr"
            /\ UNCHANGED swriter
    /\ UNCHANGED <<startResult, unsubscribe, wclosed, nexts, receivers, sctx,
                   leakedCtx, cur, recvd, written, count, ingress,
                   writesAfterStop, sinceEmit>>
    /\ UNCHANGED notSubscriber

\* attemptConnectAndRead, its call of connector.Connect: on an error it
\* returns false and connectAndRead returns.
Connect(ok) ==
    /\ spc = "connect"
    /\ connects < MaxSessions
    /\ connects' = connects + 1
    /\ IF ok
       THEN /\ swriter' = connects + 1
            /\ spc' = "next"
            /\ ev' = "Connect"
       ELSE /\ spc' = "exited"
            /\ ev' = "ConnectErr"
            /\ UNCHANGED swriter
    /\ UNCHANGED <<startResult, unsubscribe, wclosed, nexts, receivers, sctx,
                   leakedCtx, cur, recvd, written, count, ingress,
                   writesAfterStop, sinceEmit>>
    /\ UNCHANGED notSubscriber

\* attemptConnectAndRead, its call of pool.Next.
PoolNext ==
    /\ spc = "next"
    /\ nexts' = nexts + 1
    /\ spc' = "receiver"
    /\ ev' = "Next"
    /\ UNCHANGED <<startResult, unsubscribe, swriter, wclosed, connects,
                   receivers, sctx, leakedCtx, cur, recvd, written, count,
                   ingress, writesAfterStop, sinceEmit>>
    /\ UNCHANGED notSubscriber

\* attemptConnectAndRead that defers writer.Close only once the receiver is open
Receiver_LateDefer(ok) ==
    /\ spc = "receiver"
    /\ receivers' = receivers + 1
    /\ IF ok
       THEN /\ sctx' = "live"
            /\ count' = 0
            /\ sinceEmit' = 0
            /\ spc' = "loop"
            /\ ev' = "Receiver"
            /\ UNCHANGED <<swriter, leakedCtx>>
       ELSE /\ swriter' = 0
            /\ sctx' = "none"
            /\ leakedCtx' = leakedCtx + 1
            /\ spc' = "connect"
            /\ ev' = "ReceiverErr"
            /\ UNCHANGED <<count, sinceEmit>>
    /\ UNCHANGED <<startResult, unsubscribe, connects, nexts, cur, recvd,
                   written, ingress, writesAfterStop, wclosed>>
    /\ UNCHANGED notSubscriber

\* attemptConnectAndRead, from context.WithCancel and client.Receiver to the
\* entry of readWriteLoop; on an error it returns true, with writer.Close
\* the only deferred call.
Receiver(ok) ==
    /\ spc = "receiver"
    /\ receivers' = receivers + 1
    /\ IF ok
       THEN /\ sctx' = "live"
            /\ count' = 0
            /\ sinceEmit' = 0
            /\ spc' = "loop"
            /\ ev' = "Receiver"
            /\ UNCHANGED <<swriter, wclosed, leakedCtx>>
       ELSE /\ wclosed' = [wclosed EXCEPT ![swriter] = @ + 1]
            /\ swriter' = 0
            /\ sctx' = "none"
            /\ leakedCtx' = leakedCtx + 1
            /\ spc' = "connect"
            /\ ev' = "ReceiverErr"
            /\ UNCHANGED <<count, sinceEmit>>
    /\ UNCHANGED <<startResult, unsubscribe, connects, nexts, cur, recvd,
                   written, ingress, writesAfterStop>>
    /\ UNCHANGED notSubscriber

\* deferred calls that leave the writer open
deferred_NoClose ==
    /\ sctx' = "cancelled"
    /\ swriter' = 0
    /\ UNCHANGED wclosed

\* The deferred calls run when attemptConnectAndRead returns after
\* readWriteLoop: receiver.CloseSend(), cancel(), writer.Close().
deferred ==
    /\ sctx' = "cancelled"
    /\ wclosed' = [wclosed EXCEPT ![swriter] = @ + 1]
    /\ swriter' = 0

\* a load of the flag that never sees a stop
stopRequested_Never == FALSE

\* atomic.LoadInt32(unsubscribe) > 0
stopRequested == unsubscribe > 0

\* readWriteLoop, the top of its loop: returns nil when stop was called
\* (attemptConnectAndRead then returns false), else calls Recv.
CheckFlag ==
    /\ spc = "loop"
    /\ IF stopRequested
       THEN /\ deferred
            /\ spc' = "exited"
            /\ ev' = "Stopped"
       ELSE /\ spc' = "recv"
            /\ ev' = "RecvCall"
            /\ UNCHANGED <<sctx, wclosed, swriter>>
    /\ UNCHANGED <<startResult, unsubscribe, connects, nexts, receivers,
                   leakedCtx, cur, recvd, written, count, ingress,
                   writesAfterStop, sinceEmit>>
    /\ UNCHANGED notSubscriber

\* Recv returns an envelope.
Recv(e) ==
    /\ spc = "recv"
    /\ Len(recvd) < MaxRecv
    /\ e.id = Len(recvd) + 1
    /\ cur' = e
    /\ recvd' = Append(recvd, e)
    /\ spc' = "handle"
    /\ ev' = "Recv"
    /\ UNCHANGED <<startResult, unsubscribe, swriter, wclosed, connects, nexts,
                   receivers, sctx, leakedCtx, written, count, ingress,
                   writesAfterStop, sinceEmit>>
    /\ UNCHANGED notSubscriber

\* Recv returns an error: readWriteLoop returns it and
\* attemptConnectAndRead returns true after its deferred calls.
RecvErr ==
    /\ spc = "recv"
    /\ deferred
    /\ spc' = "connect"
    /\ ev' = "RecvErr"
    /\ UNCHANGED <<startResult, unsubscribe, connects, nexts, receivers,
                   leakedCtx, cur, recvd, written, count, ingress,
                   writesAfterStop, sinceEmit>>
    /\ UNCHANGED notSubscriber

\* a loop that hands the envelope over ahead of the ones before it
passToWriter_Front(e) == <<e>> \o written

\* w.Write(env): the envelopes the writer was handed so far
passToWriter(e) == Append(written, e)

\* a loop that returns the error of the writer, which restarts the session
afterWrite_Restart(writeOk) == IF writeOk THEN "loop" ELSE "connect"

\* where the loop goes after w.Write: its error is dropped
afterWrite(writeOk) == "loop"

\* an emission made only once the count has passed 1000
emitDue_Late(c, elapsed) == c > EmitEvery \/ elapsed

\* count >= 1000 || time.Since(lastEmitted) > 5*time.Second
emitDue(c, elapsed) == c >= EmitEvery \/ elapsed

\* readWriteLoop, from the return of Recv to the end of the iteration.
Handle(writeOk, elapsed) ==
    /\ spc = "handle"
    /\ IF GetLog(cur) = NilLog
       THEN /\ spc' = "loop"
            /\ ev' = "Skip"
            /\ UNCHANGED <<count, ingress, written, writesAfterStop, sinceEmit>>
       ELSE /\ IF emitDue(count + 1, elapsed)
               THEN /\ ingress' = Append(ingress, count + 1)
                    /\ count' = 0
                    /\ sinceEmit' = 0
               ELSE /\ count' = count + 1
                    /\ sinceEmit' = sinceEmit + 1
                    /\ UNCHANGED ingress
            /\ written' = passToWriter(cur)
            /\ writesAfterStop' = writesAfterStop + (IF unsubscribe > 0 THEN 1 ELSE 0)
            /\ spc' = afterWrite(writeOk)
            /\ ev' = IF writeOk THEN "Write" ELSE "WriteErr"
    /\ UNCHANGED <<startResult, unsubscribe, swriter, wclosed, connects, nexts,
                   receivers, sctx, leakedCtx, cur, recvd>>
    /\ UNCHANGED notSubscriber

SubNext ==
    \/ Start
    \/ Stop
    \/ \E ok \in BOOLEAN : Connect(ok)
    \/ PoolNext
    \/ \E ok \in BOOLEAN : Receiver(ok)
    \/ CheckFlag
    \/ \E e \in RecvEnvelopes : Recv(e)
    \/ RecvErr
    \/ \E writeOk \in BOOLEAN, elapsed \in BOOLEAN : Handle(writeOk, elapsed)

SubSpec == Init /\ [][SubNext]_allvars

\* counts a session can stand at: none yet, or within MaxRecv of the emission
LoopCounts == {0} \cup ((EmitEvery - MaxRecv)..(EmitEvery - 1))

\* A worker at the top of the loop of its first session, stop() not called,
\* that has received count Log envelopes there less than 5 seconds after the
\* loop began; recvd and written record the envelopes from here on.
LoopInit ==
    /\ WriterIdle
    /\ FormatIdle
    /\ FilterIdle
    /\ CounterIdle
    /\ SchedulerIdle
    /\ startResult = "stopFunc"
    /\ unsubscribe = 0
    /\ spc = "loop"
    /\ swriter = 1
    /\ wclosed = [w \in 1..MaxSessions |-> 0]
    /\ connects = 1
    /\ nexts = 1
    /\ receivers = 1
    /\ sctx = "live"
    /\ leakedCtx = 0
    /\ cur = NoEnv
    /\ recvd = <<>>
    /\ written = <<>>
    /\ count \in LoopCounts
    /\ sinceEmit = count
    /\ ingress = <<>>
    /\ ev = IF count = 0 THEN "Receiver" ELSE "Write"
    /\ writesAfterStop = 0

LoopNext ==
    \/ Stop
    \/ \E ok \in BOOLEAN : Connect(ok)
    \/ PoolNext
    \/ \E ok \in BOOLEAN : Receiver(ok)
    \/ CheckFlag
    \/ \E e \in RecvEnvelopes : Recv(e)
    \/ RecvErr
    \/ \E writeOk \in BOOLEAN, elapsed \in BOOLEAN : Handle(writeOk, elapsed)

LoopSpec == LoopInit /\ [][LoopNext]_allvars

\* --------------------------------------------------------- MSG formatting

NUL == 0            \* the byte removeNulls drops
NL  == 10           \* '\n'
Bytes == {NUL, NL, 97, 98}

Payloads == UNION {[1..n -> Bytes] : n \in 0..MaxLen}

\* removeNulls that drops the first NUL byte only
RECURSIVE removeNulls_First(_)
removeNulls_First(m) ==
    IF m = <<>> THEN <<>>
    ELSE IF Head(m) = NUL THEN Tail(m)
    ELSE <<Head(m)>> \o removeNulls_First(Tail(m))

\* removeNulls: bytes.Replace(msg, []byte{0}, nil, -1)
RECURSIVE removeNulls(_)
removeNulls(m) ==
    IF m = <<>> THEN <<>>
    ELSE IF Head(m) = NUL THEN removeNulls(Tail(m))
    ELSE <<Head(m)>> \o removeNulls(Tail(m))

\* bytes.HasSuffix(msg, []byte("\n"))
HasSuffixNL(m) == Len(m) >= 1 /\ m[Len(m)] = NL

\* appendNewline
appendNewline(m) == IF ~HasSuffixNL(m) THEN Append(m, NL) ELSE m

\* Write, the Message field it builds from the payload.
Format ==
    /\ fpc = "in"
    /\ msg' = appendNewline(removeNulls(payload))
    /\ fpc' = "once"
    /\ UNCHANGED <<payload, msg2>>
    /\ UNCHANGED notFormat

\* The same formatting applied to a payload that is a formatted message.
FormatAgain ==
    /\ fpc = "once"
    /\ msg2' = appendNewline(removeNulls(msg))
    /\ fpc' = "twice"
    /\ UNCHANGED <<payload, msg>>
    /\ UNCHANGED notFormat

FormatInit ==
    /\ WriterIdle
    /\ SubscriberIdle
    /\ FilterIdle
    /\ CounterIdle
    /\ SchedulerIdle
    /\ payload \in Payloads
    /\ msg = <<>>
    /\ msg2 = <<>>
    /\ fpc = "in"

FormatNext == Format \/ FormatAgain

FormatSpec == FormatInit /\ [][FormatNext]_allvars

\* ------------------------------------------------------ the version filter

AppIDs    == {"A", "B"}
Hostnames == {"H1", "H2"}

\* drain URLs: one without a scheme ("://host/?drain-version=2.0"), and
\* syslog URLs with drain-version=2.0, with another version, with none
DrainURLs == {[scheme |-> "",       version |-> "2.0"],
              [scheme |-> "syslog", version |-> "2.0"],
              [scheme |-> "syslog", version |-> "1.0"],
              [scheme |-> "syslog", version |-> ""]}

DrainLists == UNION {[1..n -> DrainURLs] : n \in 0..MaxDrains}

\* ingress.Binding values and ingress.AppBindings maps
Bindings == [Drains : DrainLists, Hostname : Hostnames]
AppBindingsSet == UNION {[S -> Bindings] : S \in SUBSET AppIDs}

\* url.Parse: fails on a URL without a scheme
urlParses(u) == u.scheme # ""

\* url.Query().Get("drain-version")
drainVersion(u) == u.version

\* the drains of one app the filter keeps, in order
RECURSIVE filterDrains(_)
filterDrains(ds) ==
    IF ds = <<>> THEN <<>>
    ELSE IF urlParses(Head(ds)) /\ drainVersion(Head(ds)) = "2.0"
         THEN <<Head(ds)>> \o filterDrains(Tail(ds))
         ELSE filterDrains(Tail(ds))

\* a filter that keeps an app whose drains were all removed
keepsApp_Always(kept) == TRUE

\* whether an app stays in the result, given the drains kept for it
keepsApp(kept) == Len(kept) > 0

\* a filter that hands on what the reader returned along with its error
resultOnError_PassThrough(input) == [nil |-> FALSE, apps |-> input]

\* what the filter returns with the error of the wrapped reader: nil
resultOnError(input) == [nil |-> TRUE, apps |-> <<>>]

\* VersionFilter.FetchBindings
FetchBindings ==
    /\ vfpc = "in"
    /\ vfpc' = "done"
    /\ IF vfReaderErr
       THEN /\ vfErr' = TRUE
            /\ vfOutput' = resultOnError(vfInput)
       ELSE /\ vfErr' = FALSE
            /\ vfOutput' =
                 [nil  |-> FALSE,
                  apps |-> [a \in {x \in DOMAIN vfInput :
                                      keepsApp(filterDrains(vfInput[x].Drains))}
                              |-> [Drains   |-> filterDrains(vfInput[a].Drains),
                                   Hostname |-> vfInput[a].Hostname]]]
    /\ UNCHANGED <<vfInput, vfReaderErr>>
    /\ UNCHANGED notFilter

FilterInit ==
    /\ WriterIdle
    /\ SubscriberIdle
    /\ FormatIdle
    /\ CounterIdle
    /\ SchedulerIdle
    /\ vfInput \in AppBindingsSet
    /\ vfReaderErr \in BOOLEAN
    /\ vfOutput = [nil |-> TRUE, apps |-> <<>>]
    /\ vfErr = FALSE
    /\ vfpc = "in"

FilterNext == FetchBindings

FilterSpec == FilterInit /\ [][FilterNext]_allvars

\* ------------------------------------------------------ the counter metric

IncArgs == {1, 2}   \* arguments of Increment explored

\* goroutines inside SendWith
InSend == {g \in Callers : cpc[g] # "idle"}

\* atomic.LoadUint64(&m.delta)
GetDelta == delta

\* Increment: atomic.AddUint64(&m.delta, c), by goroutine g.
Increment(g, c) ==
    /\ cpc[g] = "idle"
    /\ incCalls < MaxIncs
    /\ incCalls' = incCalls + 1
    /\ delta' = delta + c
    /\ incSum' = incSum + c
    /\ incDuring' = [h \in Callers |->
                       IF h \in InSend THEN incDuring[h] + c ELSE incDuring[h]]
    /\ UNCHANGED <<cpc, cd, cret, sentSum, sendCalls, overlap>>
    /\ UNCHANGED notCounter

\* SendWith, its first statement: d := atomic.SwapUint64(&m.delta, 0).
SendWith(g) ==
    /\ cpc[g] = "idle"
    /\ sendCalls < MaxSends
    /\ sendCalls' = sendCalls + 1
    /\ cd' = [cd EXCEPT ![g] = delta]
    /\ delta' = 0
    /\ cpc' = [cpc EXCEPT ![g] = "fn"]
    /\ incDuring' = [incDuring EXCEPT ![g] = 0]
    /\ overlap' = [h \in Callers |->
                     IF h = g THEN InSend # {} ELSE (overlap[h] \/ h \in InSend)]
    /\ UNCHANGED <<cret, sentSum, incSum, incCalls>>
    /\ UNCHANGED notCounter

\* SendWith, the return of fn(m.toEnvelope(d)): on nil SendWith returns nil.
SendFn(g, ok) ==
    /\ cpc[g] = "fn"
    /\ IF ok
       THEN /\ cpc' = [cpc EXCEPT ![g] = "idle"]
            /\ cret' = [cret EXCEPT ![g] = "nil"]
            /\ sentSum' = sentSum + cd[g]
       ELSE /\ cpc' = [cpc EXCEPT ![g] = "addback"]
            /\ UNCHANGED <<cret, sentSum>>
    /\ UNCHANGED <<delta, cd, incSum, incCalls, sendCalls, incDuring, overlap>>
    /\ UNCHANGED notCounter

\* an error path that stores d instead of adding it
addBack_Store(held, d) == d

\* an error path that does not give d back
addBack_None(held, d) == held

\* atomic.AddUint64(&m.delta, d)
addBack(held, d) == held + d

\* SendWith, after an error of fn: adds d back and returns the error.
AddBack(g) ==
    /\ cpc[g] = "addback"
    /\ delta' = addBack(delta, cd[g])
    /\ cpc' = [cpc EXCEPT ![g] = "idle"]
    /\ cret' = [cret EXCEPT ![g] = "err"]
    /\ UNCHANGED <<cd, sentSum, incSum, incCalls, sendCalls, incDuring, overlap>>
    /\ UNCHANGED notCounter

CounterNext ==
    \/ \E g \in Callers, c \in IncArgs : Increment(g, c)
    \/ \E g \in Callers : SendWith(g)
    \/ \E g \in Callers, ok \in BOOLEAN : SendFn(g, ok)
    \/ \E g \in Callers : AddBack(g)

CounterSpec == Init /\ [][CounterNext]_allvars

\* ------------------------------------------------------------ the scheduler

Replication == 2    \* adapters that should host each binding

\* the adapters of s.adapterAddrs, in list order
Adapters == 1..numAdapters

\* the process has not been ended by log.Fatalf
Alive == schpc # "fatal"

\* Start, its calls of setupIngress and startEgress: the fetcher chain and
\* the adapter service are built and orchestrator.Run is spawned.
startEgress ==
    /\ schpc = "new"
    /\ schpc' = "egress"
    /\ opc' = "wait"
    /\ UNCHANGED <<exitCause, numAdapters, hosted, desired, actual,
                   listFailed, affected, lastPass, passes, serveReturned>>
    /\ UNCHANGED notScheduler

\* Start, its call of serveHealth: net.Listen; on an error log.Fatalf ends
\* the process, else the serving goroutine is spawned and the address is
\* returned.
serveHealth(listenOk) ==
    /\ schpc = "egress"
    /\ IF listenOk
       THEN /\ schpc' = "serving"
            /\ UNCHANGED exitCause
       ELSE /\ schpc' = "fatal"
            /\ exitCause' = "bind"
    /\ UNCHANGED <<numAdapters, hosted, opc, desired, actual, listFailed,
                   affected, lastPass, passes, serveReturned>>
    /\ UNCHANGED notScheduler

\* a serving goroutine that logs the return of Serve and goes on
afterServe_KeepsRunning == "serving"

\* log.Fatalf("Health server closing: %s", server.Serve(lis))
afterServe == "fatal"

\* The goroutine of serveHealth: server.Serve(lis) returns.
ServeReturns ==
    /\ schpc = "serving"
    /\ ~serveReturned
    /\ serveReturned' = TRUE
    /\ schpc' = afterServe
    /\ exitCause' = IF afterServe = "fatal" THEN "serve" ELSE exitCause
    /\ UNCHANGED <<numAdapters, hosted, opc, desired, actual, listFailed,
                   affected, lastPass, passes>>
    /\ UNCHANGED notScheduler

\* ------------------------------------------------- the orchestrator's pass

\* A pass, step 1: desired <- fetcher.FetchBindings(); when the fetch fails
\* the pass aborts without an adapter RPC.
fetchDesired(d, ok) ==
    /\ Alive
    /\ opc = "wait"
    /\ passes < MaxPasses
    /\ passes' = passes + 1
    /\ IF ok
       THEN /\ desired' = d
            /\ opc' = "fetched"
            /\ UNCHANGED lastPass
       ELSE /\ opc' = "wait"
            /\ lastPass' = "aborted"
            /\ UNCHANGED desired
    /\ affected' = {}
    /\ UNCHANGED <<schpc, exitCause, numAdapters, hosted, actual, listFailed,
                   serveReturned>>
    /\ UNCHANGED notScheduler

\* A pass, step 2: actual[a] <- pool.ListBindings(a) for every adapter; a
\* failing call gives the empty set.
listActual(failed) ==
    /\ Alive
    /\ opc = "fetched"
    /\ failed \subseteq Adapters
    /\ listFailed' = failed
    /\ actual' = [a \in AdapterIds |->
                    IF a \in Adapters \ failed THEN hosted[a] ELSE {}]
    /\ opc' = "listed"
    /\ UNCHANGED <<schpc, exitCause, numAdapters, hosted, desired, affected,
                   lastPass, passes, serveReturned>>
    /\ UNCHANGED notScheduler

Min(x, y) == IF x <= y THEN x ELSE y

\* step 3: have(b) and want(b)
have(b) == Cardinality({a \in Adapters : b \in actual[a]})
want(b) == IF b \in desired THEN Min(Replication, numAdapters) ELSE 0

\* the first k members of S in adapter list order
FirstK(S, k) == {a \in S : Cardinality({x \in S : x < a}) < k}

\* step 4: the DeleteBinding calls of the pass
deletes ==
    {o \in [kind : {"Delete"}, a : Adapters, b : BindingIds] :
        /\ have(o.b) > want(o.b)
        /\ o.a \in FirstK({x \in Adapters : o.b \in actual[x]},
                          have(o.b) - want(o.b))}

\* CreateBinding calls picked among all adapters, hosting or not
creates_AnyAdapter ==
    {o \in [kind : {"Create"}, a : Adapters, b : BindingIds] :
        /\ have(o.b) < want(o.b)
        /\ o.a \in FirstK(Adapters, want(o.b) - have(o.b))}

\* step 5: the CreateBinding calls of the pass
creates ==
    {o \in [kind : {"Create"}, a : Adapters, b : BindingIds] :
        /\ have(o.b) < want(o.b)
        /\ o.a \in FirstK({x \in Adapters : o.b \notin actual[x]},
                          want(o.b) - have(o.b))}

\* the calls of a pass of which at most one fails
FailChoices(ops) == {{}} \cup {{o} : o \in ops}

\* A pass, steps 4 to 6: the DeleteBinding and CreateBinding calls are
\* issued; a failing call leaves its adapter as it was.  The pass is over
\* and its view of the adapters is dropped.
applyPlan(failedOps) ==
    /\ Alive
    /\ opc = "listed"
    /\ failedOps \in FailChoices(deletes \cup creates)
    /\ hosted' = [a \in AdapterIds |->
                    (hosted[a]
                       \cup {o.b : o \in {c \in creates \ failedOps : c.a = a}})
                       \ {o.b : o \in {c \in deletes \ failedOps : c.a = a}}]
    /\ affected' = {b \in BindingIds : \E a \in listFailed : b \in hosted[a]}
                      \cup {o.b : o \in failedOps}
    /\ lastPass' = "completed"
    /\ opc' = "wait"
    /\ actual' = [a \in AdapterIds |-> {}]
    /\ listFailed' = {}
    /\ UNCHANGED <<schpc, exitCause, numAdapters, desired, passes,
                   serveReturned>>
    /\ UNCHANGED notScheduler

\* A scheduler NewScheduler returned, given 1 to MaxAdapters adapters that
\* host whatever earlier schedulers left on them.
SchedulerInit ==
    /\ WriterIdle
    /\ SubscriberIdle
    /\ FormatIdle
    /\ FilterIdle
    /\ CounterIdle
    /\ schpc = "new"
    /\ exitCause = "none"
    /\ numAdapters \in AdapterIds
    /\ hosted \in [AdapterIds -> SUBSET BindingIds]
    /\ \A a \in AdapterIds \ Adapters : hosted[a] = {}
    /\ opc = "off"
    /\ desired = {}
    /\ actual = [a \in AdapterIds |-> {}]
    /\ listFailed = {}
    /\ affected = {}
    /\ lastPass = "none"
    /\ passes = 0
    /\ serveReturned = FALSE

SchedulerNext ==
    \/ startEgress
    \/ \E listenOk \in BOOLEAN : serveHealth(listenOk)
    \/ ServeReturns
    \/ \E d \in SUBSET BindingIds, ok \in BOOLEAN : fetchDesired(d, ok)
    \/ \E failed \in SUBSET AdapterIds : listActual(failed)
    \/ \E failedOps \in FailChoices(deletes \cup creates) : applyPlan(failedOps)

SchedulerSpec == SchedulerInit /\ [][SchedulerNext]_allvars

\* ---------------------------------------------------------------- claims

IsLog(e) == e.kind = "Log"

\* Close has been called (and, calls being sequential, has returned)
everClosed == closeCalls > 0

\* C1: the writer owns at most one open connection: a dial happens only
\* while conn is nil and while no connection it dialled is still open.
C1_OneConnection ==
    /\ [](/\ Cardinality(OpenConns) <= 1
          /\ OpenConns = (IF conn = NoConn THEN {} ELSE {conn}))
    /\ [][dials' > dials => (conn = NoConn /\ OpenConns = {})]_vars

\* a second connection is held, the first one having been closed
C1_Witness ==
    /\ Cardinality(opened) >= 2
    /\ conn # NoConn
    /\ \E c \in opened : closes[c] = 1

\* C2: a Log Write whose msg.WriteTo fails returns that error with the
\* connection closed and cleared, and the next Write of a Log envelope dials
\* a new connection and writes to it, never to a closed one.
C2_WriteErrorReconnects ==
    /\ [][(pc = "write" /\ wrote' = "fail")
            => /\ pc' = "idle"
               /\ result' = "writeErr"
               /\ conn' = NoConn
               /\ closes'[conn] = 1]_vars
    /\ []((prevFailed /\ op = "Write" /\ pc \in {"write", "idle"})
            => dialsInCall >= 1)
    /\ [](pc = "write" => (conn # NoConn /\ closes[conn] = 0))

\* the Write that follows a failed Write holds a newly dialled connection
C2_Witness ==
    /\ prevFailed
    /\ op = "Write"
    /\ pc = "write"
    /\ dialsInCall >= 1
    /\ conn \notin {f.conn : f \in {frames[i] : i \in 1..Len(frames)}}

\* C3 as stated: after Close, every Write returns a closed error.
C3_Original ==
    (everClosed /\ op = "Write" /\ pc = "idle") => result = "closedErr"

\* C3 (amended): after Close, every Write of a Log envelope returns a closed
\* error, and a Write of a non-Log envelope returns nil.
C3_ClosedWrite ==
    (everClosed /\ op = "Write" /\ pc = "idle")
        => result = (IF IsLog(env) THEN "closedErr" ELSE NIL)

\* a Log Write made after Close has returned the closed error
C3_Witness ==
    /\ everClosed
    /\ op = "Write"
    /\ pc = "idle"
    /\ IsLog(env)
    /\ result = "closedErr"

\* C4: once Close has returned, conn is nil and stays nil, and no later
\* step of any Write invokes the dial function.
C4_CloseFinal ==
    /\ [](everClosed => conn = NoConn)
    /\ [][everClosed => (dials' = dials /\ opened' = opened)]_vars

\* a Log Write was made after Close on a writer that had held a connection
C4_Witness ==
    /\ everClosed
    /\ opened # {}
    /\ op = "Write"
    /\ IsLog(env)
    /\ pc = "idle"
    /\ dialsInCall = 0

\* C5: a Close made after a Close leaves closed = true and conn = nil,
\* closes no connection and returns nil; no connection is closed twice.
C5_CloseIdempotent ==
    /\ [][(everClosed /\ closeCalls' = closeCalls + 1)
            => /\ closed /\ closed'
               /\ conn = NoConn /\ conn' = NoConn
               /\ closes' = closes
               /\ result' = NIL]_vars
    /\ [](\A c \in ConnIds : closes[c] <= 1)

\* Close was called twice on a writer whose connection the first call closed
C5_Witness ==
    /\ closeCalls >= 2
    /\ op = "Close"
    /\ \E c \in opened : closes[c] = 1
    /\ logWrites = 1

\* C6: constructing a writer dials nothing; every dial is made by a Write
\* of a Log envelope that found conn nil; the first such Write that is not
\* refused as closed makes the first dial; a Write called while a
\* connection is held goes straight to the write and dials nothing.
C6_LazyConnect ==
    /\ [][wstate = "none" => (dials' = dials /\ conn' = NoConn)]_vars
    /\ [][dials' > dials
            => (op = "Write" /\ IsLog(env) /\ pc = "connect" /\ conn = NoConn)]_vars
    /\ []((logWrites = 1 /\ op = "Write" /\ IsLog(env)
              /\ pc \in {"write", "idle"} /\ result # "closedErr")
            => (dialsInCall >= 1 /\ dials = dialsInCall))
    /\ [][(pc = "idle" /\ conn # NoConn /\ nextEnv' = nextEnv + 1)
            => (pc' \in {"write", "idle"} /\ dials' = dials)]_vars

\* two Log envelopes were written over the one connection the first dialled
C6_Witness ==
    /\ logWrites = 2
    /\ dials = 1
    /\ Len(frames) = 2
    /\ frames[1].conn = frames[2].conn

\* a dial of connect() has just failed
DialFailed == pc = "connect" /\ dials' = dials + 1 /\ conn' = NoConn

\* C7 as stated: a failed dial is followed by the 60-second sleep and
\* another dial, but when the context is cancelled or Close was called the
\* Write returns the dial error at once, without sleeping.
C7_Original ==
    [][/\ (DialFailed /\ ~ctxDone /\ ~everClosed) => pc' = "sleep"
       /\ (pc = "sleep" /\ pc' # "sleep")
            => (slept' = slept + 60 /\ pc' = "connect")
       /\ (pc = "connect" /\ pc' # "connect" /\ ~everClosed)
            => dials' = dials + 1
       /\ (pc = "connect" /\ pc' \notin {"connect", "write"}
              /\ (ctxDone \/ everClosed))
            => (DialFailed /\ pc' = "idle" /\ result' = "dialErr"
                /\ slept' = slept)]_vars

\* C7 (amended): a failed dial is followed by the 60-second sleep and
\* another dial while the context is not cancelled; with the context
\* cancelled the Write returns the dial error at once, without sleeping;
\* after Close the Write returns a closed error and dials nothing.
C7_DialBackoff ==
    [][/\ (DialFailed /\ ~ctxDone) => pc' = "sleep"
       /\ (pc = "sleep" /\ pc' # "sleep")
            => (slept' = slept + 60 /\ pc' = "connect")
       /\ (pc = "connect" /\ pc' # "connect" /\ ~everClosed)
            => dials' = dials + 1
       /\ pc' = "connect" => slept' = 60 * dialsInCall'
       /\ (DialFailed /\ ctxDone)
            => (pc' = "idle" /\ result' = "dialErr" /\ slept' = slept)
       /\ (pc = "connect" /\ pc' # "connect" /\ everClosed)
            => (pc' = "idle" /\ result' = "closedErr" /\ dials' = dials
                /\ slept' = slept)]_vars

\* a Write slept once, dialled again with the context cancelled meanwhile,
\* and returned the error of that second dial
C7_Witness ==
    /\ op = "Write"
    /\ pc = "idle"
    /\ result = "dialErr"
    /\ slept = 60
    /\ dialsInCall = 2

FramesOf(id) == {i \in 1..Len(frames) : frames[i].id = id}

\* C8: no envelope has more than one frame, and a returned Write has left
\* exactly one frame for its envelope when it was a Log Write that returned
\* nil, and none otherwise.
C8_NoDuplicateFrames ==
    /\ \A id \in 1..MaxEnvs : Cardinality(FramesOf(id)) <= 1
    /\ (op = "Write" /\ pc = "idle")
         => Cardinality(FramesOf(env.id)) = (IF IsLog(env) /\ result = NIL THEN 1 ELSE 0)
    /\ (op = "Write" /\ pc # "idle") => FramesOf(env.id) = {}

\* a Write failed, the next one reconnected and wrote its own frame only
C8_Witness ==
    /\ op = "Write"
    /\ pc = "idle"
    /\ prevFailed
    /\ result = NIL
    /\ Len(frames) = 1
    /\ frames[1].id = env.id
    /\ env.id >= 2

\* C9: a Write of a non-Log envelope returns nil at once and leaves the
\* connection, the closed flag, the egress metric, the dials and the frames
\* as they were.
C9_NonLogNoEffect ==
    [][(nextEnv' = nextEnv + 1 /\ ~IsLog(env'))
         => /\ result' = NIL
            /\ pc' = "idle"
            /\ UNCHANGED <<conn, closed, egressMetric, dials, opened, closes,
                           frames>>]_vars

\* a Counter envelope was written while a connection was held
C9_Witness ==
    /\ op = "Write"
    /\ env.kind = "Counter"
    /\ pc = "idle"
    /\ result = NIL
    /\ conn # NoConn
    /\ ~closed

\* ------------------------------------------ claims on the subscription worker

\* C11: when Recv returns an error the worker closes the writer of the
\* session and goes back to connector.Connect; every Connect is made with
\* all earlier writers closed, a successful one yields a writer not used
\* before, and pool.Next is called next.
C11_RecvErrRestarts ==
    [][/\ (spc = "recv" /\ ev' = "RecvErr")
            => /\ wclosed'[swriter] = wclosed[swriter] + 1
               /\ spc' = "connect"
       /\ (connects' = connects + 1)
            => /\ swriter = 0
               /\ \A w \in 1..connects : wclosed[w] = 1
               /\ (ev' = "Connect")
                    => (swriter' = connects' /\ wclosed'[swriter'] = 0
                        /\ spc' = "next")
       /\ (spc = "next" /\ spc' # "next")
            => (nexts' = nexts + 1 /\ spc' = "receiver")]_allvars

\* with no stop called, a second session has its own writer and client
\* after a Recv error ended the first, whose writer is closed
C11_Witness ==
    /\ spc = "receiver"
    /\ unsubscribe = 0
    /\ sctx = "cancelled"
    /\ connects = 2
    /\ nexts = 2
    /\ swriter = 2
    /\ wclosed[1] = 1

\* C12: a failing connector.Connect ends the worker: pool.Next and
\* client.Receiver are not called for that session, and nothing is called
\* afterwards.
C12_ConnectErrFinal ==
    [][/\ (spc = "connect" /\ connects' = connects + 1 /\ ev' = "ConnectErr")
            => (spc' = "exited" /\ nexts' = nexts /\ receivers' = receivers)
       /\ (ev = "ConnectErr")
            => UNCHANGED <<spc, ev, connects, nexts, receivers, swriter>>]_allvars

\* the Connect of a second session failed and the worker is gone
C12_Witness ==
    /\ ev = "ConnectErr"
    /\ spc = "exited"
    /\ connects = 2
    /\ nexts = 1
    /\ receivers = 1

\* C13: a Connect failure at the start of the subscription is reported as
\* an error to the caller of Start.
C13_ConnectFailureReported ==
    (ev = "ConnectErr" /\ connects = 1) => startResult = "error"

\* C14 as stated: once stop() has been called no envelope is passed to
\* writer.Write.
C14_Original ==
    [][written' # written => unsubscribe = 0]_allvars

\* C14 (amended): the flag is looked at before each Recv, not between Recv
\* and Write: Recv is called only with the flag clear, a stop seen at the
\* top of the loop ends the worker, and after stop() at most one more
\* envelope is passed to writer.Write.
C14_StopCheckedBeforeRecv ==
    /\ [][/\ (spc' = "recv" /\ spc # "recv") => unsubscribe = 0
          /\ (spc = "loop" /\ spc' # "loop" /\ unsubscribe > 0)
               => spc' = "exited"]_allvars
    /\ [](writesAfterStop <= 1)

\* stop() came during a Recv, the envelope of that Recv was written and the
\* worker then left
C14_Witness ==
    /\ writesAfterStop = 1
    /\ spc = "exited"
    /\ ev = "Stopped"

\* C15: when stop() is called while the worker is in Recv the context of
\* the session is cancelled.
C15_StopCancelsContext ==
    (unsubscribe > 0 /\ spc = "recv") => sctx = "cancelled"

\* C16 as stated: an error of writer.Write ends the session and a new one
\* begins with another writer.
C16_Original ==
    [][(spc = "handle" /\ ev' = "WriteErr")
         => (spc' = "connect" /\ swriter' # swriter)]_allvars

\* C16 (amended): an error of writer.Write is dropped: the loop goes on in
\* the same session with the same writer, still open, and the same
\* receiver and context.
C16_WriteErrIgnored ==
    /\ [][(spc = "handle" /\ ev' = "WriteErr")
            => /\ spc' = "loop"
               /\ UNCHANGED <<swriter, wclosed, connects, nexts, receivers,
                              sctx>>]_allvars
    /\ [](ev = "WriteErr"
            => (swriter # 0 /\ wclosed[swriter] = 0 /\ sctx = "live"))

\* a Write failed and the worker is back at the top of the loop of the
\* same session
C16_Witness ==
    /\ ev = "WriteErr"
    /\ spc = "loop"
    /\ connects = 1
    /\ swriter = 1
    /\ Len(written) = 2

RECURSIVE SumSeq(_)
SumSeq(q) == IF q = <<>> THEN 0 ELSE Head(q) + SumSeq(Tail(q))

\* Log envelopes counted so far in this session or emitted
Counted == count + SumSeq(ingress)

\* C17: an iteration of the loop passes the envelope to writer.Write and
\* counts it if it is a Log envelope, and otherwise leaves the writer and
\* the counts alone; nothing else passes an envelope to the writer.
C17_OnlyLogsForwarded ==
    [][/\ (spc = "handle" /\ spc' # "handle")
            => IF IsLog(cur)
               THEN /\ written' = Append(written, cur)
                    /\ Counted' = Counted + 1
               ELSE UNCHANGED <<written, count, ingress>>
       /\ written' # written => (spc = "handle" /\ IsLog(cur))]_allvars

\* a Gauge envelope was skipped after a Log envelope had been written
C17_Witness ==
    /\ ev = "Skip"
    /\ cur.kind = "Gauge"
    /\ Len(recvd) = 2
    /\ Len(written) = 1
    /\ Counted = 1

\* C18: the envelopes passed to the writer are envelopes Recv returned, in
\* the order Recv returned them.
C18_OrderPreserved ==
    /\ \A i \in 1..Len(written) :
          /\ written[i].id \in 1..Len(recvd)
          /\ recvd[written[i].id] = written[i]
    /\ \A i, j \in 1..Len(written) : i < j => written[i].id < written[j].id

\* the first and the third envelope were written, in two sessions, the
\* second one not
C18_Witness ==
    /\ Len(recvd) = 3
    /\ Len(written) = 2
    /\ written[1].id = 1
    /\ written[2].id = 3
    /\ connects = 2

\* ------------------------------------------------- claims on the formatting

NotNul(b) == b # NUL

\* C19: the formatted MSG has no NUL byte and ends with a newline: it is
\* the payload without its NUL bytes, with one '\n' appended unless that
\* already ends with one; "a\x00b\x00" gives "ab\n"; formatting the result
\* again changes nothing.
C19_MsgFormat ==
    /\ fpc # "in"
         => LET stripped == SelectSeq(payload, NotNul)
            IN  /\ \A i \in 1..Len(msg) : msg[i] # NUL
                /\ Len(msg) >= 1
                /\ msg[Len(msg)] = NL
                /\ msg = IF Len(stripped) >= 1 /\ stripped[Len(stripped)] = NL
                         THEN stripped
                         ELSE stripped \o <<NL>>
                /\ (payload = <<97, NUL, 98, NUL>> => msg = <<97, 98, NL>>)
    /\ fpc = "twice" => msg2 = msg

\* "a\x00b\x00" was formatted, twice
C19_Witness ==
    /\ fpc = "twice"
    /\ payload = <<97, NUL, 98, NUL>>
    /\ msg = <<97, 98, NL>>
    /\ msg2 = <<97, 98, NL>>

\* --------------------------------------------- claims on the version filter

GoodDrain(u) == u.scheme # "" /\ u.version = "2.0"

\* C20: the filter returns exactly the apps with a drain that parses and
\* carries drain-version=2.0, each with exactly those drains in input order
\* and with its hostname.
C20_VersionFilter ==
    (vfpc = "done" /\ ~vfReaderErr)
      => /\ ~vfOutput.nil
         /\ ~vfErr
         /\ DOMAIN vfOutput.apps =
              {a \in DOMAIN vfInput :
                 \E i \in 1..Len(vfInput[a].Drains) : GoodDrain(vfInput[a].Drains[i])}
         /\ \A a \in DOMAIN vfOutput.apps :
              /\ vfOutput.apps[a].Drains = SelectSeq(vfInput[a].Drains, GoodDrain)
              /\ vfOutput.apps[a].Hostname = vfInput[a].Hostname

\* app A came with a malformed and a good drain, app B with a malformed one
\* only: A is returned with its good drain, B is gone
C20_Witness ==
    /\ vfpc = "done"
    /\ ~vfReaderErr
    /\ DOMAIN vfInput = {"A", "B"}
    /\ vfInput["A"].Drains = <<[scheme |-> "", version |-> "2.0"],
                               [scheme |-> "syslog", version |-> "2.0"]>>
    /\ vfInput["B"].Drains = <<[scheme |-> "", version |-> "2.0"]>>
    /\ DOMAIN vfOutput.apps = {"A"}
    /\ vfOutput.apps["A"].Drains = <<[scheme |-> "syslog", version |-> "2.0"]>>

\* C21: when the wrapped reader returns an error the filter returns an
\* error and a nil result, whatever bindings the reader returned with it.
C21_ReaderErrorPassed ==
    (vfpc = "done" /\ vfReaderErr)
      => /\ vfErr
         /\ vfOutput.nil
         /\ vfOutput.apps = <<>>

\* the reader failed while returning an app with a good drain
C21_Witness ==
    /\ vfpc = "done"
    /\ vfReaderErr
    /\ vfErr
    /\ DOMAIN vfInput = {"A"}
    /\ vfInput["A"].Drains = <<[scheme |-> "syslog", version |-> "2.0"]>>
    /\ vfOutput.nil

\* ------------------------------------------------ claims on the ingress count

\* C24: the count grows by one per Log envelope; when it reaches 1000, or
\* the 5 seconds have passed, the ingress counter is incremented by the
\* count, which is the number of Log envelopes received in the session since
\* its previous emission, and the count restarts at 0; the count never
\* passes 1000 and other envelopes leave it alone.
C24_IngressBatches ==
    /\ [][(spc = "handle" /\ spc' # "handle")
            => IF ~IsLog(cur) THEN UNCHANGED <<count, ingress>>
               ELSE IF Len(ingress') > Len(ingress)
               THEN /\ ingress' = Append(ingress, sinceEmit + 1)
                    /\ count + 1 = sinceEmit + 1
                    /\ count' = 0
               ELSE /\ count' = count + 1
                    /\ count' < EmitEvery
                    /\ UNCHANGED ingress]_allvars
    /\ [][(spc = "handle" /\ spc' # "handle" /\ IsLog(cur)
             /\ count + 1 >= EmitEvery)
            => Len(ingress') = Len(ingress) + 1]_allvars
    /\ [][ingress' # ingress => spc = "handle"]_allvars
    /\ [](/\ count = sinceEmit
          /\ count < EmitEvery
          /\ \A i \in 1..Len(ingress) : ingress[i] \in 1..EmitEvery)

\* the thousandth Log envelope of a session brought an emission of 1000,
\* and the one after it was counted from 0
C24_Witness ==
    /\ Len(ingress) = 1
    /\ ingress[1] = EmitEvery
    /\ count = 1
    /\ connects = 1
    /\ spc = "loop"

\* ------------------------------------------- claims on the end of the worker

\* steps the worker is from its exit once stop() has been called, when no
\* call sends it back
StopRank(p) ==
    CASE p = "exited"   -> 0
      [] p = "loop"     -> 1
      [] p = "handle"   -> 2
      [] p = "receiver" -> 2
      [] p = "next"     -> 3
      [] p = "connect"  -> 4
      [] OTHER          -> 5

\* C27: once stop() has been called the worker is on its way out: each
\* step it takes brings it nearer to its exit, whether Recv returns an
\* envelope or an error and whether client.Receiver succeeds or fails, so
\* that it exits when its calls return.
C27_StopLeadsToExit ==
    [][(unsubscribe > 0 /\ spc' # spc) => StopRank(spc') < StopRank(spc)]_allvars

\* C28: once stop() has been called the worker makes no further
\* connector.Connect, pool.Next or client.Receiver call.
C28_NoSessionAfterStop ==
    [][unsubscribe > 0
         => (connects' = connects /\ nexts' = nexts
             /\ receivers' = receivers)]_allvars

\* C29: every context made for a session is cancelled by the time the
\* session attempt returns: none is dropped uncancelled, and none is live
\* between sessions or after the exit.
C29_ContextsCancelled ==
    /\ leakedCtx = 0
    /\ spc \in {"connect", "exited"} => sctx # "live"

\* writers connector.Connect returned
Obtained == IF ev = "ConnectErr" THEN 1..(connects - 1) ELSE 1..connects

\* C30: a writer obtained from Connect is closed exactly once when its
\* session attempt returns, however it ends; the worker holds at most one
\* unclosed writer, the one of the session in progress, and none between
\* sessions or after it has exited.
C30_WriterClosedOnce ==
    /\ [](/\ \A w \in 1..MaxSessions : wclosed[w] <= 1
          /\ {w \in Obtained : wclosed[w] = 0}
               = (IF swriter = 0 THEN {} ELSE {swriter})
          /\ spc \in {"unstarted", "connect", "exited"} => swriter = 0)
    /\ [][(spc \in {"receiver", "loop", "recv"} /\ spc' \in {"connect", "exited"})
            => (wclosed[swriter] = 0 /\ wclosed'[swriter] = 1)]_allvars
    /\ [][connects' = connects + 1
            => \A w \in Obtained : wclosed[w] = 1]_allvars

\* three sessions, ended by a failure of client.Receiver, by an error of
\* Recv and by stop(), each left its writer closed once
C30_Witness ==
    /\ spc = "exited"
    /\ ev = "Stopped"
    /\ connects = 3
    /\ receivers = 3
    /\ leakedCtx = 1
    /\ \A w \in 1..3 : wclosed[w] = 1

\* ------------------------------------------------ claims on the counter metric

RECURSIVE SumOver(_, _)
SumOver(f, S) ==
    IF S = {} THEN 0
    ELSE LET g == CHOOSE x \in S : TRUE IN f[g] + SumOver(f, S \ {g})

\* C25: no increment is lost or counted twice: the deltas fn accepted, the
\* current delta and the deltas the SendWith calls in progress hold add up
\* to the arguments of all Increment calls; once all calls have returned,
\* the deltas accepted plus the current delta are that sum.
C25_NoIncrementLost ==
    /\ sentSum + GetDelta + SumOver(cd, InSend) = incSum
    /\ InSend = {} => sentSum + GetDelta = incSum

\* two goroutines sent at the same time, one failing and one succeeding,
\* while increments came in; all calls have returned
C25_Witness ==
    /\ InSend = {}
    /\ incCalls = 2
    /\ sendCalls = 2
    /\ \E g, h \in Callers :
          /\ cret[g] = "err" /\ cret[h] = "nil"
          /\ overlap[g] /\ overlap[h]
          /\ cd[g] > 0 /\ cd[h] > 0

\* no other call ran during the SendWith of g
Alone(g) == ~overlap[g] /\ incDuring[g] = 0

\* C26: SendWith swaps the delta out; when fn fails it adds the delta back
\* and returns the error, so that with no concurrent call the delta is what
\* it was before the call; when fn succeeds it returns nil and the delta
\* sent stays removed: the delta is then the sum of the Increments made
\* during the call (0 with no concurrent call) unless another SendWith ran.
C26_SendWithError ==
    [][\A g \in Callers :
         /\ (cpc[g] = "idle" /\ cpc'[g] = "fn")
              => (cd'[g] = GetDelta /\ GetDelta' = 0)
         /\ (cpc[g] = "addback" /\ cpc'[g] = "idle")
              => /\ cret'[g] = "err"
                 /\ GetDelta' = GetDelta + cd[g]
                 /\ Alone(g) => GetDelta' = cd[g]
                 /\ sentSum' = sentSum
         /\ (cpc[g] = "fn" /\ cpc'[g] = "idle")
              => /\ cret'[g] = "nil"
                 /\ sentSum' = sentSum + cd[g]
                 /\ GetDelta' = GetDelta
                 /\ ~overlap[g] => GetDelta' = incDuring[g]
                 /\ Alone(g) => GetDelta' = 0
         /\ cret'[g] # cret[g] => cpc[g] \in {"fn", "addback"}]_allvars

\* a SendWith that ran alone failed and left the delta of 3 it had found
C26_Witness ==
    /\ InSend = {}
    /\ incSum = 3
    /\ sentSum = 0
    /\ \E g \in Callers : cret[g] = "err" /\ Alone(g) /\ cd[g] = 3
    /\ GetDelta = 3

\* ------------------------------------------------- claims on the scheduler

\* C22 as stated: once started, the process is ended by a failure to bind
\* the health port only.
C22_Original ==
    schpc = "fatal" => exitCause = "bind"

\* C22 (amended): the process is ended by a failure to bind the health
\* port and by the return of the health server's Serve, both fatal, and by
\* nothing else: a failed fetch or adapter RPC of a pass leaves it running.
C22_FatalOnlyInServeHealth ==
    /\ [](schpc = "fatal" => exitCause \in {"bind", "serve"})
    /\ [](serveReturned => (schpc = "fatal" /\ exitCause = "serve"))
    /\ [][(schpc' = "fatal" /\ schpc # "fatal")
            => \/ (schpc = "egress" /\ exitCause' = "bind")
               \/ (schpc = "serving" /\ serveReturned' /\ exitCause' = "serve")]_allvars
    /\ [][(schpc = "egress" /\ schpc' # "egress")
            => (schpc' = "fatal" <=> exitCause' = "bind")]_allvars
    /\ [][(opc # "off" /\ (opc' # opc \/ passes' # passes))
            => UNCHANGED <<schpc, exitCause>>]_allvars

\* Serve returned and ended a process that had gone through a pass whose
\* fetch failed
C22_Witness ==
    /\ schpc = "fatal"
    /\ exitCause = "serve"
    /\ serveReturned
    /\ passes = 1
    /\ lastPass = "aborted"

\* adapters that host b
Hosts(b) == {a \in Adapters : b \in hosted[a]}

====
